---- MODULE Spec2Model ----
(***************************************************************************)
(* testquery: the ingestion and correlation pipeline.                      *)
(*                                                                         *)
(*   Spec       PopulateTables: the event collector, the aggregate         *)
(*              coverage pass, the per-test correlator and the source      *)
(*              line pass, with the rows they insert.                      *)
(*   SpecParse  parseTestOutput on raw harness output (both decoders).     *)
(*   SpecDDL    CreateTablesFromDDL on a schema script.                    *)
(*   SpecMain   the pipeline under populateTables of package main.         *)
(*   SpecLocate getFunctionName on a file and a line (both variants).      *)
(*   SpecCmd    sequences of tq query, tq shell and tq build on one        *)
(*              database file.                                             *)
(*                                                                         *)
(* An error is the chain of its messages, outermost wrap first; nil is the *)
(* empty chain.  A test name is the sequence of its characters.            *)
(***************************************************************************)
EXTENDS Integers, Sequences, FiniteSets, TLC

\* ------------------------------------------------------------------ bounds

\* records in the harness output of one collection run
MaxOut == 2
\* tokens (records and newlines) of a raw output handed to parseTestOutput
MaxRaw == 3
\* collection runs in a sequence of commands
MaxRuns == 2
MaxName == 3
MaxViewLine == 2
MaxInput == 3
\* blocks in one parsed coverage profile
MaxBlocks == 2
\* statements in a schema script
MaxStmts == 3

\* ------------------------------------------------------------------ values

NoErr == <<>>

Wrap(msg, err) == <<msg>> \o err

\* TestEvent: Action, Package, Test and the build-failure marker ("" when absent)
TestEvent(action, test, fb) ==
    [kind |-> "rec", action |-> action, pkg |-> "p", test |-> test, fb |-> fb]

EvPass == TestEvent("pass", <<"A", "/", "b">>, "")
EvFail == TestEvent("fail", <<"A", "_", "b">>, "")
EvSkip == TestEvent("skip", <<"S">>, "")
EvPkgPass == TestEvent("pass", <<>>, "")
EvBuildFail == TestEvent("fail", <<>>, "p")

\* a record that is not well-formed JSON (an unquoted key, a cut-off object)
BadRecord == [kind |-> "bad", action |-> "", pkg |-> "", test |-> <<>>, fb |-> ""]

\* the newline that ends a line of the harness output
NL == [kind |-> "nl", action |-> "", pkg |-> "", test |-> <<>>, fb |-> ""]

EventSet == {EvPass, EvFail, EvSkip, EvPkgPass, EvBuildFail}

RecordSet == EventSet \cup {BadRecord}

TokenSet == RecordSet \cup {NL}

SeqsUpTo(S, n) == UNION {[1..k -> S] : k \in 0..n}

\* the harness writes one record per line
RECURSIVE Lines(_)
Lines(recs) ==
    IF recs = <<>> THEN <<>> ELSE <<Head(recs), NL>> \o Lines(Tail(recs))

\* ------------------------------------------------------------------ Event Collector

\* json.Decoder over the output: values are decoded one by one, white space
\* between them is skipped, the first malformed value ends the decoding with an
\* error and nothing is returned
RECURSIVE decodeFrom(_, _, _)
decodeFrom(output, k, result) ==
    IF k > Len(output) THEN [events |-> result, err |-> NoErr, panic |-> FALSE]
    ELSE IF output[k].kind = "nl" THEN decodeFrom(output, k + 1, result)
    ELSE IF output[k].kind = "bad"
         THEN [events |-> <<>>, err |-> <<"json: cannot decode">>, panic |-> FALSE]
    ELSE decodeFrom(output, k + 1, Append(result, output[k]))

parseTestOutput(output) == decodeFrom(output, 1, <<>>)

\* the earlier decoder: drop the last byte, turn every newline into a comma,
\* wrap in brackets and unmarshal the array
stripLastByte(output) ==
    LET n == Len(output)
    IN  IF output[n].kind = "nl" THEN SubSeq(output, 1, n - 1)
        ELSE [output EXCEPT ![n] = BadRecord]

\* "[" + s + "]" is a JSON array iff s is empty or well-formed records
\* separated by single commas
isJSONArray(s) ==
    \/ s = <<>>
    \/ /\ Len(s) % 2 = 1
       /\ \A k \in 1..Len(s) :
            IF k % 2 = 1 THEN s[k].kind = "rec" ELSE s[k].kind = "nl"

parseTestOutputArray(output) ==
    IF output = <<>>
    THEN [events |-> <<>>, err |-> NoErr, panic |-> TRUE]
    ELSE LET s == stripLastByte(output)
         IN  IF isJSONArray(s)
             THEN [events |-> SelectSeq(s, LAMBDA t : t.kind = "rec"),
                   err |-> NoErr, panic |-> FALSE]
             ELSE [events |-> <<>>, err |-> <<"json: cannot unmarshal">>,
                   panic |-> FALSE]

\* the marker is not looked at
isBuildFailureNever(event) == FALSE

isBuildFailure(event) == event.action = "fail" /\ event.fb # ""

\* the filter on the name alone
isTestResultAnyAction(test) == test.test # <<>>

isTestResult(test) == ~(test.test = <<>> \/ (test.action # "pass" /\ test.action # "fail"))

\* any error of cmd.Run taken as fatal
harnessDidNotRunOrExited(runErr) == runErr # "none"

\* cmd.Run returned an error that is not an *exec.ExitError: the harness did
\* not run
harnessDidNotRun(runErr) == runErr # "none" /\ runErr # "exit"

\* runErr: "none" (exit status 0), "exit" (*exec.ExitError), "launch" (any other error)
collectTestResults(runErr, output) ==
    IF harnessDidNotRun(runErr)
    THEN [events |-> <<>>, err |-> <<"failed to run go test", "exec: not found">>]
    ELSE LET tests == parseTestOutput(output)
         IN  IF tests.err # NoErr
             THEN [events |-> <<>>, err |-> Wrap("failed to parse test output", tests.err)]
             ELSE IF \E k \in 1..Len(tests.events) : isBuildFailure(tests.events[k])
             THEN LET first == CHOOSE k \in 1..Len(tests.events) :
                                  /\ isBuildFailure(tests.events[k])
                                  /\ \A j \in 1..(k - 1) : ~isBuildFailure(tests.events[j])
                  IN  [events |-> <<>>,
                       err |-> <<"build failed for package", tests.events[first].fb>>]
             ELSE [events |-> SelectSeq(tests.events, isTestResult), err |-> NoErr]

\* ------------------------------------------------------------------ Function Locator

\* the source file of the package under test: its top-level declarations in
\* source order, with the lines of their first and last token and the
\* function literals written inside them
\*   1 package p / 2-3 func F / 4 var v = func() {...}() / 5-6 func G
Decls ==
    << [kind |-> "func", name |-> "F", start |-> 2, end |-> 3, lits |-> {}],
       [kind |-> "gen", name |-> "v", start |-> 4, end |-> 4, lits |-> {<<4, 4>>}],
       [kind |-> "func", name |-> "G", start |-> 5, end |-> 6, lits |-> {}] >>

SourceFile == "f.go"

\* a file whose functions hold closures, and a method
\*   1 package p / 2-6 func Outer { 3-5 func() { 4 func() {} } }
\*   7 (blank) / 8-9 func (t T) M
NestedDecls ==
    << [kind |-> "func", name |-> "Outer", start |-> 2, end |-> 6,
        lits |-> {<<3, 5>>, <<4, 4>>}],
       [kind |-> "func", name |-> "M", start |-> 8, end |-> 9, lits |-> {}] >>

\* a file without functions
\*   1 package p / 2 (blank) / 3 var GlobalVar = 10 / 4 const MyConst = "hello"
NoFuncDecls ==
    << [kind |-> "gen", name |-> "GlobalVar", start |-> 3, end |-> 3, lits |-> {}],
       [kind |-> "gen", name |-> "MyConst", start |-> 4, end |-> 4, lits |-> {}] >>

\* the files parser.ParseFile can be given; "broken.go" is there and is not
\* Go, "nonexistent.go" is not there
ParsedFiles == {SourceFile, "nested.go", "nofunc.go"}

FileNames == ParsedFiles \cup {"broken.go", "nonexistent.go"}

\* node.Decls of a parsed file
DeclsOf(fileName) ==
    CASE fileName = SourceFile -> Decls
      [] fileName = "nested.go" -> NestedDecls
      [] OTHER -> NoFuncDecls

\* the last line of the longest file
MaxLine == 9

\* the first and the last line of a declaration left out of its range
isEnclosingFuncDeclExclusive(decl, lineNumber) ==
    decl.kind = "func" /\ decl.start < lineNumber /\ lineNumber < decl.end

\* decl.(*ast.FuncDecl) with start <= lineNumber && lineNumber <= end
isEnclosingFuncDecl(decl, lineNumber) ==
    decl.kind = "func" /\ decl.start <= lineNumber /\ lineNumber <= decl.end

\* the walk over node.Decls: the first function declaration whose line range
\* contains the line; none is an error
RECURSIVE findFuncDecl(_, _, _)
findFuncDecl(decls, k, lineNumber) ==
    IF k > Len(decls)
    THEN [name |-> "", err |-> <<"function not found at line">>]
    ELSE IF isEnclosingFuncDecl(decls[k], lineNumber)
         THEN [name |-> decls[k].name, err |-> NoErr]
         ELSE findFuncDecl(decls, k + 1, lineNumber)

getFunctionName(fileName, lineNumber) ==
    IF fileName \notin ParsedFiles
    THEN [name |-> "", err |-> <<"failed to parse file", "open: no such file">>]
    ELSE findFuncDecl(DeclsOf(fileName), 1, lineNumber)

\* the walk of ast_utils.go: the same loop, ending in return "", nil
RECURSIVE findFuncDeclOrEmpty(_, _, _)
findFuncDeclOrEmpty(decls, k, lineNumber) ==
    IF k > Len(decls)
    THEN [name |-> "", err |-> NoErr]
    ELSE IF isEnclosingFuncDecl(decls[k], lineNumber)
         THEN [name |-> decls[k].name, err |-> NoErr]
         ELSE findFuncDeclOrEmpty(decls, k + 1, lineNumber)

\* getFunctionName of ast_utils.go
getFunctionNameOrEmpty(fileName, lineNumber) ==
    IF fileName \notin ParsedFiles
    THEN [name |-> "", err |-> <<"failed to parse file", "open: no such file">>]
    ELSE findFuncDeclOrEmpty(DeclsOf(fileName), 1, lineNumber)

\* ------------------------------------------------------------------ Coverage profiles

\* a block of the profile of p/f.go: filepath.Dir and filepath.Base of the
\* profile's file name, and the block's fields
ProfileBlock(startLine, endLine, count) ==
    [dir |-> "p", file |-> SourceFile, start_line |-> startLine, start_col |-> 1,
     end_line |-> endLine, end_col |-> 2, stmt_num |-> 1, count |-> count]

\* a block of F, a block of the function literal of the package-level
\* variable (inside no function declaration), a block of G
BlockSet == {ProfileBlock(2, 3, 1), ProfileBlock(4, 4, 1), ProfileBlock(5, 6, 0)}

\* cover.ParseProfiles returns the blocks of a file sorted by position, one
\* per position
IsSortedProfile(blocks) ==
    \A k \in 1..(Len(blocks) - 1) : blocks[k].start_line < blocks[k + 1].start_line

Profiles == {blocks \in SeqsUpTo(BlockSet, MaxBlocks) : IsSortedProfile(blocks)}

\* what a profile file holds: a well-formed profile or text that does not parse
FileContents ==
    {[state |-> "profile", blocks |-> blocks] : blocks \in Profiles}
        \cup {[state |-> "garbled", blocks |-> <<>>]}

Absent == [state |-> "absent", blocks |-> <<>>]

\* cover.ParseProfiles(fileName): a missing or malformed file is an error
ParseProfiles(content) ==
    IF content.state = "profile"
    THEN [blocks |-> content.blocks, err |-> NoErr]
    ELSE [blocks |-> <<>>, err |-> <<"bad mode line">>]

\* ------------------------------------------------------------------ Per-Test Correlator

\* the class [a-zA-Z0-9_] over the characters of the names at hand
IsWordChar(c) == c \in {"A", "b", "S", "0", "_"}

\* every other character replaced on its own
sanitizeEachChar(testName) ==
    [k \in 1..Len(testName) |-> IF IsWordChar(testName[k]) THEN testName[k] ELSE "_"]

\* regexp [^a-zA-Z0-9_]+ with ReplaceAllString(testName, "_"): every maximal
\* run of other characters becomes one underscore
sanitizeTestName(testName) ==
    LET out[k \in 0..Len(testName)] ==
            IF k = 0 THEN <<>>
            ELSE IF IsWordChar(testName[k]) THEN Append(out[k - 1], testName[k])
            ELSE IF k > 1 /\ ~IsWordChar(testName[k - 1]) THEN out[k - 1]
            ELSE Append(out[k - 1], "_")
    IN  out[Len(testName)]

\* the row named after the profile file, not after the test
TestCoverageResultOfFile(test, block, functionName) ==
    [test_name |-> sanitizeTestName(test.test), package |-> block.dir, file |-> block.file,
     start_line |-> block.start_line, start_col |-> block.start_col,
     end_line |-> block.end_line, end_col |-> block.end_col,
     stmt_num |-> block.stmt_num, count |-> block.count,
     function_name |-> functionName]

TestCoverageResult(test, block, functionName) ==
    [test_name |-> test.test, package |-> block.dir, file |-> block.file,
     start_line |-> block.start_line, start_col |-> block.start_col,
     end_line |-> block.end_line, end_col |-> block.end_col,
     stmt_num |-> block.stmt_num, count |-> block.count,
     function_name |-> functionName]

\* the loop over the blocks of one parsed profile: a block whose function
\* name cannot be retrieved is logged and left out
RECURSIVE blockRows(_, _, _)
blockRows(test, blocks, k) ==
    IF k > Len(blocks) THEN <<>>
    ELSE LET fn == getFunctionName(blocks[k].file, blocks[k].start_line)
         IN  IF fn.err # NoErr
             THEN blockRows(test, blocks, k + 1)
             ELSE <<TestCoverageResult(test, blocks[k], fn.name)>>
                      \o blockRows(test, blocks, k + 1)

\* ------------------------------------------------------------------ state

VARIABLES
    variant,        \* whose populateTables runs: package "database" or package "main"
    harness,        \* the harness run: [runErr, out]
    pc,             \* the pass PopulateTables is at
    collected,      \* what collectTestResults returned: [events, err]
    testResults,    \* PopulateTables' testResults
    err,            \* the error PopulateTables returns
    all_tests, all_coverage, test_coverage, all_code,   \* the tables, in insertion order
    i,              \* collectTestCoverageResults: index of the test of the iteration
    results,        \* collectTestCoverageResults: the rows appended so far
    cmdErr,         \* collectTestCoverageResults: what cmd.Run returned
    disk,           \* the profile files in the working directory: name -> content
    runs,           \* the re-runs issued so far: [test, run, wrote, content]
    corrRet,        \* what collectTestCoverageResults returned: [rows, err]
    raw, parsed,    \* parseTestOutput: its argument and what it returned
    ddl, ddlPc, ddlIdx, txObjs, schema, ddlErr,         \* CreateTablesFromDDL
    loc, located,   \* getFunctionName: its arguments and what it returned
    db,             \* the database file: [file, schema, tabs]
    collections,    \* the collection runs started so far
    last,           \* the last command: what it was given, did and returned
    canceled,       \* the context of PopulateTables is canceled
    coverageOut,    \* what populateCoverageResults found in coverage.out
    testName, sanitized,    \* sanitizeTestName: its argument and what it returned
    code_coverage,  \* the rows a query of the view code_coverage returned
    input, pos,     \* Prompt: what the terminal will deliver, and how far it got
    cmds, cmdsFrom, \* Prompt: the buffer, and the input position of each line in it
    prompt,         \* Prompt: the prompt the next read shows
    executed,       \* Prompt: the statements handed to query.Execute, in order
    shellRet        \* Prompt: what it returned

tables == <<all_tests, all_coverage, test_coverage, all_code>>

corrVars == <<i, results, cmdErr, disk, runs, corrRet>>

pipeVars ==
    <<variant, canceled, coverageOut, harness, pc, collected, testResults, err, tables,
      corrVars>>

parseVars == <<raw, parsed>>

ddlVars == <<ddl, ddlPc, ddlIdx, txObjs, schema, ddlErr>>

locVars == <<loc, located>>

cmdVars == <<db, collections, last>>

sanVars == <<testName, sanitized>>

viewVars == <<code_coverage>>

shellVars == <<input, pos, cmds, cmdsFrom, prompt, executed, shellRet>>

vars == <<pipeVars, parseVars, ddlVars, locVars, cmdVars, sanVars, viewVars, shellVars>>

NotParsed == [events |-> <<>>, err |-> NoErr, panic |-> FALSE, by |-> "none"]

NotReturned == [rows |-> <<>>, err |-> NoErr, returned |-> FALSE]

\* coverage.out before populateCoverageResults looked at it
Unread == [state |-> "unread", blocks |-> <<>>]

PipeIdle ==
    /\ variant = "database"
    /\ canceled = FALSE
    /\ coverageOut = Unread
    /\ harness = [runErr |-> "none", out |-> <<>>]
    /\ pc = "idle"
    /\ collected = [events |-> <<>>, err |-> NoErr]
    /\ testResults = <<>>
    /\ err = NoErr
    /\ all_tests = <<>> /\ all_coverage = <<>> /\ test_coverage = <<>> /\ all_code = <<>>
    /\ i = 1 /\ results = <<>> /\ cmdErr = "none" /\ disk = {} /\ runs = <<>>
    /\ corrRet = NotReturned

ParseIdle == raw = <<>> /\ parsed = NotParsed

DDLIdle ==
    /\ ddl = <<>> /\ ddlPc = "idle" /\ ddlIdx = 0
    /\ txObjs = {} /\ schema = {} /\ ddlErr = NoErr

NotLocated == [name |-> "", err |-> NoErr, by |-> "none"]

LocIdle == loc = [file |-> "", line |-> 0] /\ located = NotLocated

\* no database file
NoFile == [file |-> "absent", schema |-> FALSE, tabs |-> [t \in 1..4 |-> {}]]

NoCommand ==
    [cmd |-> "none", force |-> FALSE, before |-> NoFile, did |-> {}, err |-> NoErr]

CmdIdle == db = NoFile /\ collections = 0 /\ last = NoCommand

NotSanitized == [done |-> FALSE, name |-> <<>>]

SanIdle == testName = <<>> /\ sanitized = NotSanitized

NotQueried == [queried |-> FALSE, rows |-> {}]

ViewIdle == code_coverage = NotQueried

ShellIdle ==
    /\ input = <<>> /\ pos = 1
    /\ cmds = <<>> /\ cmdsFrom = <<>>
    /\ prompt = "> "
    /\ executed = <<>>
    /\ shellRet = "running"

\* ------------------------------------------------------------------ PopulateTables

\* the rows a pass inserts one by one with db.ExecContext, each in its own
\* implicit transaction: the first n rows are in the table when the insert
\* of row n + 1 fails
Inserted(table, rows, n) == table \o SubSeq(rows, 1, n)

\* what db.ExecContext fails with: under a canceled context it fails before
\* it reaches the database
execError == IF canceled THEN "context canceled" ELSE "db error"

\* the messages PopulateTables of package database wraps the error of a pass in
PopulateTablesWrap(pass) ==
    CASE pass = 1 -> "failed to populate test results"
      [] pass = 2 -> "failed to populate coverage results"
      [] pass = 3 -> "failed to populate test coverage results"
      [] OTHER -> "failed to populate code"

\* the messages populateTables of package main wraps the error of a pass in
populateTablesWrap(pass) ==
    CASE pass = 1 -> "failed to populate test results"
      [] pass = 2 -> "failed to populate coverage results"
      [] pass = 3 -> "failed to populate coverage results"
      [] OTHER -> "failed to populate code"

wrapOfPass(pass) ==
    IF variant = "main" THEN populateTablesWrap(pass) ELSE PopulateTablesWrap(pass)

\* the error of a pass ignored: the next pass is run
onPassErrorGoOn(next) == next

\* if err != nil { return fmt.Errorf(...) }: PopulateTables is over
onPassError(next) == "aborted"

\* first pass: PopulateTestResults, wrapped by PopulateTables
PopulateTestResults ==
    /\ pc = "tests"
    /\ LET got == collectTestResults(harness.runErr, harness.out)
       IN  /\ collected' = got
           /\ IF got.err # NoErr
              THEN /\ err' = Wrap(wrapOfPass(1),
                                  Wrap("failed to collect test results", got.err))
                   /\ pc' = onPassError("coverage")
                   /\ UNCHANGED <<testResults, all_tests>>
              ELSE \E n \in 0..Len(got.events) :
                     /\ canceled => n = 0
                     /\ all_tests' = Inserted(all_tests, got.events, n)
                     /\ IF n < Len(got.events)
                        THEN /\ err' = <<wrapOfPass(1),
                                         "failed to insert test results", execError>>
                             /\ pc' = onPassError("coverage")
                             /\ UNCHANGED testResults
                        ELSE /\ testResults' = got.events
                             /\ pc' = "coverage"
                             /\ UNCHANGED err
    /\ UNCHANGED <<harness, all_coverage, test_coverage, all_code, corrVars>>
    /\ UNCHANGED <<variant, canceled, coverageOut, parseVars, ddlVars, locVars, cmdVars>>
    /\ UNCHANGED <<sanVars, viewVars, shellVars>>

CoverageResult(block, functionName) ==
    [package |-> block.dir, file |-> block.file,
     start_line |-> block.start_line, start_col |-> block.start_col,
     end_line |-> block.end_line, end_col |-> block.end_col,
     stmt_num |-> block.stmt_num, count |-> block.count,
     function_name |-> functionName]

\* the aggregate path: a block whose function name cannot be retrieved ends
\* the collection with an error
RECURSIVE coverageRows(_, _, _)
coverageRows(blocks, k, acc) ==
    IF k > Len(blocks) THEN [rows |-> acc, err |-> NoErr]
    ELSE LET fn == getFunctionName(blocks[k].file, blocks[k].start_line)
         IN  IF fn.err # NoErr
             THEN [rows |-> <<>>, err |-> Wrap("failed to retrieve function name", fn.err)]
             ELSE coverageRows(blocks, k + 1, Append(acc, CoverageResult(blocks[k], fn.name)))

\* a profile that cannot be opened or parsed taken for an empty one
collectCoverageResultsLenient(content) ==
    coverageRows(ParseProfiles(content).blocks, 1, <<>>)

collectCoverageResults(content) ==
    LET profiles == ParseProfiles(content)
    IN  IF profiles.err # NoErr
        THEN [rows |-> <<>>, err |-> profiles.err]
        ELSE coverageRows(profiles.blocks, 1, <<>>)

\* second pass: populateCoverageResults on the coverage.out that the harness
\* run left behind (or did not)
PopulateCoverageResults ==
    /\ pc = "coverage"
    /\ \E content \in FileContents \cup {Absent} :
         LET got == collectCoverageResults(content)
         IN  /\ coverageOut' = content
             /\ IF got.err # NoErr
                THEN /\ err' = Wrap(wrapOfPass(2),
                                    Wrap("failed to collect coverage results", got.err))
                     /\ pc' = onPassError("corr_loop")
                     /\ UNCHANGED all_coverage
                ELSE \E n \in 0..Len(got.rows) :
                       /\ canceled => n = 0
                       /\ all_coverage' = Inserted(all_coverage, got.rows, n)
                       /\ IF n < Len(got.rows)
                          THEN /\ err' = <<wrapOfPass(2),
                                           "failed to insert coverage results",
                                           execError>>
                               /\ pc' = onPassError("corr_loop")
                          ELSE /\ pc' = "corr_loop"
                               /\ UNCHANGED err
    /\ UNCHANGED <<harness, collected, testResults, all_tests, test_coverage, all_code>>
    /\ UNCHANGED corrVars
    /\ UNCHANGED <<variant, canceled, parseVars, ddlVars, locVars, cmdVars>>
    /\ UNCHANGED <<sanVars, viewVars, shellVars>>

\* ------------------------------------------------------------------ collectTestCoverageResults

\* err.(*exec.ExitError): the harness ran and exited non-zero
isExitError(e) == e = "exit"

\* the removal left out
osRemoveNothing(files, name) == files

\* os.Remove(coverageFile); removing a file that is not there changes nothing
osRemove(files, name) == {f \in files : f.name # name}

\* the harness writes (or overwrites) the profile it was asked for
writeFile(files, name, content) ==
    IF content = Absent THEN files
    ELSE {f \in files : f.name # name} \cup {[name |-> name, content |-> content]}

readFile(files, name) ==
    IF \E f \in files : f.name = name
    THEN (CHOOSE f \in files : f.name = name).content
    ELSE Absent

\* every error of the run ends the collection
onRunErrorAbort(e, rows) ==
    [next |-> "return", rows |-> <<>>,
     err |-> <<"failed to run go test for coverage", "exit status 1">>]

\* every error of the run skips the test
onRunErrorSkip(e, rows) == [next |-> "continue", rows |-> rows, err |-> NoErr]

\* cmd.Run returned an error: an exit status skips the test, anything else
\* ends the collection
onRunError(e, rows) ==
    IF isExitError(e)
    THEN [next |-> "continue", rows |-> rows, err |-> NoErr]
    ELSE [next |-> "return", rows |-> <<>>,
          err |-> <<"failed to run go test for coverage", "exec: not found">>]

\* a profile that does not parse ends the collection
onParseErrorAbort(rows) == [next |-> "return", rows |-> <<>>, err |-> <<"bad mode line">>]

\* cover.ParseProfiles returned an error: the test is logged and skipped
onParseError(rows) == [next |-> "continue", rows |-> rows, err |-> NoErr]

\* go test pkgDir -run ^Test$ -coverprofile=<sanitized name>.out
RunTest ==
    /\ pc = "corr_loop"
    /\ i <= Len(testResults)
    /\ LET test == testResults[i]
           coverageFile == sanitizeTestName(test.test)
       IN  \E run \in {"none", "exit", "launch"}, content \in FileContents \cup {Absent} :
             /\ run = "launch" => content = Absent
             /\ cmdErr' = run
             /\ disk' = writeFile(disk, coverageFile, content)
             /\ runs' = Append(runs, [test |-> test, run |-> run,
                                      wrote |-> content # Absent,
                                      content |-> IF run = "none" THEN content ELSE Absent])
    /\ pc' = "corr_ran"
    /\ UNCHANGED <<harness, collected, testResults, err, tables, i, results, corrRet>>
    /\ UNCHANGED <<variant, canceled, coverageOut, parseVars, ddlVars, locVars, cmdVars>>
    /\ UNCHANGED <<sanVars, viewVars, shellVars>>

\* the rest of the iteration: the error of the run, the parse of the profile,
\* the removal of the profile file, the rows of the blocks
HandleRun ==
    /\ pc = "corr_ran"
    /\ LET test == testResults[i]
           coverageFile == sanitizeTestName(test.test)
           profiles == ParseProfiles(readFile(disk, coverageFile))
           step == IF cmdErr # "none" THEN onRunError(cmdErr, results)
                   ELSE IF profiles.err # NoErr THEN onParseError(results)
                   ELSE [next |-> "continue",
                         rows |-> results \o blockRows(test, profiles.blocks, 1),
                         err |-> NoErr]
       IN  /\ disk' = osRemove(disk, coverageFile)
           /\ IF step.next = "continue"
              THEN /\ results' = step.rows
                   /\ i' = i + 1
                   /\ pc' = "corr_loop"
                   /\ UNCHANGED corrRet
              ELSE /\ corrRet' = [rows |-> step.rows, err |-> step.err, returned |-> TRUE]
                   /\ pc' = "corr_returned"
                   /\ UNCHANGED <<results, i>>
    /\ UNCHANGED <<harness, collected, testResults, err, tables, cmdErr, runs>>
    /\ UNCHANGED <<variant, canceled, coverageOut, parseVars, ddlVars, locVars, cmdVars>>
    /\ UNCHANGED <<sanVars, viewVars, shellVars>>

\* the loop is over: return results, nil
CorrReturn ==
    /\ pc = "corr_loop"
    /\ i > Len(testResults)
    /\ corrRet' = [rows |-> results, err |-> NoErr, returned |-> TRUE]
    /\ pc' = "corr_returned"
    /\ UNCHANGED <<harness, collected, testResults, err, tables>>
    /\ UNCHANGED <<i, results, cmdErr, disk, runs>>
    /\ UNCHANGED <<variant, canceled, coverageOut, parseVars, ddlVars, locVars, cmdVars>>
    /\ UNCHANGED <<sanVars, viewVars, shellVars>>

\* third pass: populateTestCoverageResults once collectTestCoverageResults
\* has returned, wrapped by PopulateTables
PopulateTestCoverageResults ==
    /\ pc = "corr_returned"
    /\ IF corrRet.err # NoErr
       THEN /\ err' = Wrap(wrapOfPass(3),
                           Wrap("failed to collect coverage results by test", corrRet.err))
            /\ pc' = onPassError("code")
            /\ UNCHANGED test_coverage
       ELSE \E n \in 0..Len(corrRet.rows) :
              /\ canceled => n = 0
              /\ test_coverage' = Inserted(test_coverage, corrRet.rows, n)
              /\ IF n < Len(corrRet.rows)
                 THEN /\ err' = <<wrapOfPass(3),
                                  "failed to insert test coverage results", execError>>
                      /\ pc' = onPassError("code")
                 ELSE /\ pc' = "code"
                      /\ UNCHANGED err
    /\ UNCHANGED <<harness, collected, testResults, all_tests, all_coverage, all_code>>
    /\ UNCHANGED corrVars
    /\ UNCHANGED <<variant, canceled, coverageOut, parseVars, ddlVars, locVars, cmdVars>>
    /\ UNCHANGED <<sanVars, viewVars, shellVars>>

\* ------------------------------------------------------------------ source lines

CodeLineOf(package, file, lineNumber, content) ==
    [package |-> package, file |-> file, line_number |-> lineNumber, content |-> content]

\* strings.Split(data, "\n")[i]: the text of a line; the model tells the first
\* line of a file from the others
LineContent(lineNumber) == IF lineNumber = 1 THEN "package p" ELSE "}"

CodeLine(lineNumber) == CodeLineOf("p", SourceFile, lineNumber, LineContent(lineNumber))

\* the lines of f.go, in order
collectCodeLines == [n \in 1..Decls[Len(Decls)].end |-> CodeLine(n)]

\* fourth pass: populateCode; the walk over the package directory can fail
PopulateCode ==
    /\ pc = "code"
    /\ \E walked \in BOOLEAN :
         IF ~walked
         THEN /\ err' = <<wrapOfPass(4), "failed to collect coverage results",
                          "failed to extract lines of code", "walk error">>
              /\ pc' = onPassError("done")
              /\ UNCHANGED all_code
         ELSE \E n \in 0..Len(collectCodeLines) :
                /\ canceled => n = 0
                /\ all_code' = Inserted(all_code, collectCodeLines, n)
                /\ IF n < Len(collectCodeLines)
                   THEN /\ err' = <<wrapOfPass(4),
                                    "failed to insert code lines", execError>>
                        /\ pc' = onPassError("done")
                   ELSE /\ pc' = "done"
                        /\ UNCHANGED err
    /\ UNCHANGED <<harness, collected, testResults, all_tests, all_coverage, test_coverage>>
    /\ UNCHANGED corrVars
    /\ UNCHANGED <<variant, canceled, coverageOut, parseVars, ddlVars, locVars, cmdVars>>
    /\ UNCHANGED <<sanVars, viewVars, shellVars>>

\* the harness output of a run: one record per line; a harness that could
\* not be started wrote nothing
HarnessRuns ==
    {[runErr |-> e, out |-> Lines(recs)] :
        e \in {"none", "exit"}, recs \in SeqsUpTo(RecordSet, MaxOut)}
        \cup {[runErr |-> "launch", out |-> <<>>]}

InitOf(package) ==
    /\ variant = package
    /\ canceled = FALSE
    /\ coverageOut = Unread
    /\ harness \in HarnessRuns
    /\ pc = "tests"
    /\ collected = [events |-> <<>>, err |-> NoErr]
    /\ testResults = <<>>
    /\ err = NoErr
    /\ all_tests = <<>> /\ all_coverage = <<>> /\ test_coverage = <<>> /\ all_code = <<>>
    /\ i = 1 /\ results = <<>> /\ cmdErr = "none" /\ disk = {} /\ runs = <<>>
    /\ corrRet = NotReturned
    /\ ParseIdle
    /\ DDLIdle
    /\ LocIdle
    /\ CmdIdle
    /\ SanIdle
    /\ ViewIdle
    /\ ShellIdle

Init == InitOf("database")

\* populateTables of package main
InitMain == InitOf("main")

PopulateTables ==
    \/ PopulateTestResults
    \/ PopulateCoverageResults
    \/ RunTest
    \/ HandleRun
    \/ CorrReturn
    \/ PopulateTestCoverageResults
    \/ PopulateCode

Next == PopulateTables

Spec == Init /\ [][Next]_vars

SpecMain == InitMain /\ [][Next]_vars

\* ------------------------------------------------------------------ cancellation

\* the context handed to PopulateTables is canceled while it runs
Cancel ==
    /\ ~canceled
    /\ pc \notin {"done", "aborted"}
    /\ canceled' = TRUE
    /\ UNCHANGED <<variant, coverageOut, harness, pc, collected, testResults, err, tables,
                   corrVars>>
    /\ UNCHANGED <<parseVars, ddlVars, locVars, cmdVars, sanVars, viewVars, shellVars>>

NextCancel == PopulateTables \/ Cancel

\* PopulateTables under a context that can be canceled
SpecCancel == Init /\ [][NextCancel]_vars

\* ------------------------------------------------------------------ parseTestOutput alone

InitParse ==
    /\ PipeIdle
    /\ SanIdle
    /\ ViewIdle
    /\ ShellIdle
    /\ DDLIdle
    /\ LocIdle
    /\ CmdIdle
    /\ raw \in SeqsUpTo(TokenSet, MaxRaw)
    /\ parsed = NotParsed

\* the stream decoder
ParseTestOutput ==
    /\ parsed.by = "none"
    /\ LET got == parseTestOutput(raw)
       IN  parsed' = [events |-> got.events, err |-> got.err, panic |-> got.panic,
                      by |-> "decoder"]
    /\ UNCHANGED <<raw, pipeVars, ddlVars, locVars, cmdVars, sanVars, viewVars, shellVars>>

\* the array decoder
ParseTestOutputArray ==
    /\ parsed.by = "none"
    /\ LET got == parseTestOutputArray(raw)
       IN  parsed' = [events |-> got.events, err |-> got.err, panic |-> got.panic,
                      by |-> "array"]
    /\ UNCHANGED <<raw, pipeVars, ddlVars, locVars, cmdVars, sanVars, viewVars, shellVars>>

NextParse == ParseTestOutput \/ ParseTestOutputArray

SpecParse == InitParse /\ [][NextParse]_vars

\* ------------------------------------------------------------------ CreateTablesFromDDL

CreateStmt(obj) == [kind |-> "create", obj |-> obj]

\* a statement the engine rejects
MalformedStmt == [kind |-> "malformed", obj |-> ""]

\* a piece of the script that is empty once trimmed
BlankStmt == [kind |-> "blank", obj |-> ""]

StmtSet == {CreateStmt("all_tests"), CreateStmt("b"), MalformedStmt, BlankStmt}

\* strings.Split(ddl, ";"): the script as the sequence of its pieces
InitDDL ==
    /\ PipeIdle
    /\ SanIdle
    /\ ViewIdle
    /\ ShellIdle
    /\ ParseIdle
    /\ LocIdle
    /\ CmdIdle
    /\ ddl \in SeqsUpTo(StmtSet, MaxStmts)
    /\ ddlPc = "begin"
    /\ ddlIdx = 1
    /\ txObjs = {}
    /\ schema = {}
    /\ ddlErr = NoErr

\* tx.Exec(stmt): creating an object that exists already fails
execFails(stmt, visible) ==
    \/ stmt.kind = "malformed"
    \/ stmt.kind = "create" /\ stmt.obj \in visible

\* the statements executed before the failing one are kept
afterRollbackKeep(committed, pending) == committed \cup pending

\* tx.Rollback(): nothing the transaction created is kept
afterRollback(committed, pending) == committed

\* tx.Commit(): everything the transaction created is kept
afterCommit(committed, pending) == committed \cup pending

\* db.Begin()
DDLBegin ==
    /\ ddlPc = "begin"
    /\ \E ok \in BOOLEAN :
         IF ok
         THEN ddlPc' = "exec" /\ UNCHANGED ddlErr
         ELSE /\ ddlPc' = "returned"
              /\ ddlErr' = <<"failed to begin transaction", "db error">>
    /\ UNCHANGED <<ddl, ddlIdx, txObjs, schema>>
    /\ UNCHANGED <<pipeVars, parseVars, locVars, cmdVars, sanVars, viewVars, shellVars>>

\* one turn of the loop over the statements
DDLExec ==
    /\ ddlPc = "exec"
    /\ ddlIdx <= Len(ddl)
    /\ LET stmt == ddl[ddlIdx]
       IN  IF stmt.kind = "blank"
           THEN /\ ddlIdx' = ddlIdx + 1
                /\ UNCHANGED <<ddlPc, txObjs, ddlErr, schema>>
           ELSE IF execFails(stmt, schema \cup txObjs)
           THEN /\ schema' = afterRollback(schema, txObjs)
                /\ txObjs' = {}
                /\ ddlErr' = <<"failed to execute statement", "sql error">>
                /\ ddlPc' = "returned"
                /\ UNCHANGED ddlIdx
           ELSE /\ txObjs' = txObjs \cup {stmt.obj}
                /\ ddlIdx' = ddlIdx + 1
                /\ UNCHANGED <<ddlPc, ddlErr, schema>>
    /\ UNCHANGED ddl
    /\ UNCHANGED <<pipeVars, parseVars, locVars, cmdVars, sanVars, viewVars, shellVars>>

\* return tx.Commit(): a commit that fails keeps nothing
DDLCommit ==
    /\ ddlPc = "exec"
    /\ ddlIdx > Len(ddl)
    /\ \E ok \in BOOLEAN :
         IF ok
         THEN /\ schema' = afterCommit(schema, txObjs)
              /\ UNCHANGED ddlErr
         ELSE /\ schema' = afterRollback(schema, txObjs)
              /\ ddlErr' = <<"commit failed">>
    /\ txObjs' = {}
    /\ ddlPc' = "returned"
    /\ UNCHANGED <<ddl, ddlIdx>>
    /\ UNCHANGED <<pipeVars, parseVars, locVars, cmdVars, sanVars, viewVars, shellVars>>

CreateTablesFromDDL == DDLBegin \/ DDLExec \/ DDLCommit

NextDDL == CreateTablesFromDDL

SpecDDL == InitDDL /\ [][NextDDL]_vars

\* ------------------------------------------------------------------ getFunctionName alone

InitLocate ==
    /\ PipeIdle
    /\ SanIdle
    /\ ViewIdle
    /\ ShellIdle
    /\ ParseIdle
    /\ DDLIdle
    /\ CmdIdle
    /\ loc \in [file : FileNames, line : 1..MaxLine]
    /\ located = NotLocated

\* getFunctionName as the correlator has it
GetFunctionName ==
    /\ located.by = "none"
    /\ LET got == getFunctionName(loc.file, loc.line)
       IN  located' = [name |-> got.name, err |-> got.err, by |-> "getFunctionName"]
    /\ UNCHANGED <<loc, pipeVars, parseVars, ddlVars, cmdVars, sanVars, viewVars, shellVars>>

\* getFunctionName of ast_utils.go
GetFunctionNameOrEmpty ==
    /\ located.by = "none"
    /\ LET got == getFunctionNameOrEmpty(loc.file, loc.line)
       IN  located' = [name |-> got.name, err |-> got.err, by |-> "ast_utils"]
    /\ UNCHANGED <<loc, pipeVars, parseVars, ddlVars, cmdVars, sanVars, viewVars, shellVars>>

NextLocate == GetFunctionName \/ GetFunctionNameOrEmpty

SpecLocate == InitLocate /\ [][NextLocate]_vars

\* ------------------------------------------------------------------ the commands

\* The database file is [file, schema, tabs]: whether it is there, whether it
\* holds the tables and views of the schema script, and for each of the four
\* tables the collection runs whose rows it holds.

\* the collection is run whether the file is there or not
needsCollectAlways(d) == TRUE

\* _, err := os.Stat(dbFile); os.IsNotExist(err)
needsCollect(d) == d.file = "absent"

\* CREATE TABLE taken as CREATE TABLE IF NOT EXISTS
createFailsNever(d) == FALSE

\* CREATE TABLE all_tests on a database that has the table
createFails(d) == d.schema

\* database.CreateTables on the opened file; opening creates the file.  The
\* script is applied in one transaction: the schema is there as a whole or
\* not at all.
CreateTables(d, txOk) ==
    IF ~txOk
    THEN [db |-> [d EXCEPT !.file = "present"],
          err |-> <<"failed to begin transaction", "db error">>]
    ELSE IF createFails(d)
    THEN [db |-> [d EXCEPT !.file = "present"],
          err |-> <<"failed to execute statement", "table all_tests already exists">>]
    ELSE [db |-> [d EXCEPT !.file = "present", !.schema = TRUE], err |-> NoErr]

\* database.PopulateTables as collection run id: the passes before the
\* failing one (all of them when failedPass = 0) add their rows to what the
\* tables hold, the failing one adds some of its rows or none
populateTablesOn(d, id, failedPass, partial) ==
    [db |-> [d EXCEPT !.tabs =
                [t \in 1..4 |->
                    IF failedPass = 0 \/ t < failedPass \/ (t = failedPass /\ partial)
                    THEN d.tabs[t] \cup {id} ELSE d.tabs[t]]],
     err |-> IF failedPass = 0 THEN NoErr
             ELSE <<PopulateTablesWrap(failedPass), "error of the pass">>]

runCollect(d, id, listOk, txOk, failedPass, partial) ==
    IF ~listOk
    THEN [db |-> d, did |-> {"list"}, collected |-> FALSE,
          err |-> <<"failed to list packages", "exit status 1">>]
    ELSE LET created == CreateTables(d, txOk)
         IN  IF created.err # NoErr
             THEN [db |-> created.db, did |-> {"list", "create"}, collected |-> FALSE,
                   err |-> Wrap("failed to create tables", created.err)]
             ELSE LET populated == populateTablesOn(created.db, id, failedPass, partial)
                  IN  [db |-> populated.db,
                       did |-> {"list", "create", "harness"}
                                 \cup (IF populated.db # created.db THEN {"insert"} ELSE {}),
                       collected |-> TRUE,
                       err |-> IF populated.err # NoErr
                               THEN Wrap("failed to populate tables", populated.err)
                               ELSE NoErr]

\* what runQuery and runShell do before they open the database
removeAndCollect(d, id, force, removeOk, listOk, txOk, failedPass, partial) ==
    IF force /\ d.file = "present" /\ ~removeOk
    THEN [db |-> d, did |-> {}, collected |-> FALSE, opened |-> FALSE,
          err |-> <<"failed to remove existing database", "permission denied">>]
    ELSE LET removed == IF force THEN NoFile ELSE d
             didRemove == IF force /\ d.file = "present" THEN {"remove"} ELSE {}
         IN  IF needsCollect(removed)
             THEN LET c == runCollect(removed, id, listOk, txOk, failedPass, partial)
                  IN  [db |-> c.db, did |-> didRemove \cup c.did, collected |-> c.collected,
                       opened |-> c.err = NoErr,
                       err |-> IF c.err # NoErr THEN Wrap("failed to create database", c.err)
                               ELSE NoErr]
             ELSE [db |-> removed, did |-> didRemove, collected |-> FALSE,
                   opened |-> TRUE, err |-> NoErr]

Command(cmd, force) ==
    \E removeOk \in BOOLEAN, listOk \in BOOLEAN, txOk \in BOOLEAN,
       failedPass \in 0..4, partial \in BOOLEAN :
        LET r == removeAndCollect(db, collections + 1, force, removeOk, listOk, txOk,
                                  failedPass, partial)
        IN  /\ r.collected => collections < MaxRuns
            /\ db' = r.db
            /\ collections' = IF r.collected THEN collections + 1 ELSE collections
            /\ last' = [cmd |-> cmd, force |-> force, before |-> db,
                        did |-> r.did \cup (IF r.opened THEN {cmd} ELSE {}),
                        err |-> r.err]

\* tq query [--force]: query.Execute on the opened database
RunQuery ==
    /\ \E force \in BOOLEAN : Command("query", force)
    /\ UNCHANGED <<pipeVars, parseVars, ddlVars, locVars, sanVars, viewVars, shellVars>>

\* tq shell [--force]: shell.Prompt on the opened database
RunShell ==
    /\ \E force \in BOOLEAN : Command("shell", force)
    /\ UNCHANGED <<pipeVars, parseVars, ddlVars, locVars, sanVars, viewVars, shellVars>>

\* tq build: the collection on the output file as it is, then the INSERT
\* into metadata, a table the schema script does not create
RunBuild ==
    /\ \E listOk \in BOOLEAN, txOk \in BOOLEAN, failedPass \in 0..4, partial \in BOOLEAN :
         LET r == runCollect(db, collections + 1, listOk, txOk, failedPass, partial)
         IN  /\ r.collected => collections < MaxRuns
             /\ db' = r.db
             /\ collections' = IF r.collected THEN collections + 1 ELSE collections
             /\ last' = [cmd |-> "build", force |-> FALSE, before |-> db, did |-> r.did,
                         err |-> IF r.err # NoErr THEN r.err
                                 ELSE <<"failed to insert metadata",
                                        "no such table: metadata">>]
    /\ UNCHANGED <<pipeVars, parseVars, ddlVars, locVars, sanVars, viewVars, shellVars>>

InitCmd ==
    /\ PipeIdle
    /\ SanIdle
    /\ ViewIdle
    /\ ShellIdle
    /\ ParseIdle
    /\ DDLIdle
    /\ LocIdle
    /\ db = NoFile
    /\ collections = 0
    /\ last = NoCommand

NextCmd == RunQuery \/ RunShell \/ RunBuild

SpecCmd == InitCmd /\ [][NextCmd]_vars

\* ------------------------------------------------------------------ the view code_coverage

\* the .go files filepath.Walk meets under the package directory, in its
\* lexical order: filepath.Dir and filepath.Base of each
TreePaths ==
    << [package |-> "p", file |-> "f.go"],
       [package |-> "p", file |-> "f_test.go"],
       [package |-> "p", file |-> "latest.go"],
       [package |-> "q", file |-> "f.go"] >>

\* the characters of a file name
Spelling(file) ==
    CASE file = "f.go" -> <<"f", ".", "g", "o">>
      [] file = "f_test.go" -> <<"f", "_", "t", "e", "s", "t", ".", "g", "o">>
      [] OTHER -> <<"l", "a", "t", "e", "s", "t", ".", "g", "o">>

\* the lines of the chosen files, file after file
RECURSIVE walkCodeLines(_, _)
walkCodeLines(chosen, k) ==
    IF k > Len(TreePaths) THEN <<>>
    ELSE (IF TreePaths[k] \in chosen
          THEN [n \in 1..MaxViewLine |->
                   CodeLineOf(TreePaths[k].package, TreePaths[k].file, n, LineContent(n))]
          ELSE <<>>) \o walkCodeLines(chosen, k + 1)

ViewBlock(package, file, startLine, endLine, count) ==
    CoverageResult([dir |-> package, file |-> file,
                    start_line |-> startLine, start_col |-> 1,
                    end_line |-> endLine, end_col |-> 2,
                    stmt_num |-> 1, count |-> count], "F")

\* the blocks a profile can hold for these files: two blocks of p/f.go that
\* meet on line 2 (the first executed, the second not), a block of
\* p/latest.go, a block of q/f.go; go test writes no block for a test file
ViewBlocks ==
    << ViewBlock("p", "f.go", 1, 2, 1),
       ViewBlock("p", "f.go", 2, 2, 0),
       ViewBlock("p", "latest.go", 1, 1, 1),
       ViewBlock("q", "f.go", 1, 1, 0) >>

\* the rows of all_coverage of a run over the chosen files
coverageOf(chosen, blocks) ==
    LET Stored(b) ==
            /\ b \in blocks
            /\ [package |-> b.package, file |-> b.file] \in chosen
    IN  SelectSeq(ViewBlocks, Stored)

\* ac.file not like '%_test.go' is false: in a LIKE pattern "%" stands for any
\* run of characters and "_" for any one character, so the name is at least
\* one character followed by "test.go"
likeTestGo(name) ==
    /\ Len(name) >= 8
    /\ SubSeq(name, Len(name) - 6, Len(name)) = <<"t", "e", "s", "t", ".", "g", "o">>

\* on ac.file = cov.file and ac.line_number between cov.start_line and cov.end_line
joins(ac, cov) ==
    /\ ac.file = cov.file
    /\ cov.start_line <= ac.line_number /\ ac.line_number <= cov.end_line

ViewRow(ac, covered) ==
    [file |-> ac.file, line_number |-> ac.line_number, content |-> ac.content,
     covered |-> covered]

\* select distinct ... from all_code ac left join all_coverage cov on ...
\* where ac.file not like '%_test.go': one row per joined pair, one row with
\* ifnull(count, 0) = 0 for a line nothing joins, duplicates removed
codeCoverageView(code, coverage) ==
    LET kept == {k \in 1..Len(code) : ~likeTestGo(Spelling(code[k].file))}
        joined(k) == {c \in 1..Len(coverage) : joins(code[k], coverage[c])}
    IN  UNION {IF joined(k) = {}
               THEN {ViewRow(code[k], 0)}
               ELSE {ViewRow(code[k], coverage[c].count) : c \in joined(k)} : k \in kept}

\* the tables after a collection run over some of the files, with some of
\* the blocks in the profile
InitView ==
    /\ variant = "database"
    /\ canceled = FALSE
    /\ coverageOut = Unread
    /\ harness = [runErr |-> "none", out |-> <<>>]
    /\ pc = "done"
    /\ collected = [events |-> <<>>, err |-> NoErr]
    /\ testResults = <<>>
    /\ err = NoErr
    /\ all_tests = <<>> /\ test_coverage = <<>>
    /\ i = 1 /\ results = <<>> /\ cmdErr = "none" /\ disk = {} /\ runs = <<>>
    /\ corrRet = NotReturned
    /\ \E chosen \in (SUBSET {TreePaths[k] : k \in DOMAIN TreePaths}) \ {{}},
          blocks \in SUBSET {ViewBlocks[k] : k \in DOMAIN ViewBlocks} :
         /\ all_code = walkCodeLines(chosen, 1)
         /\ all_coverage = coverageOf(chosen, blocks)
    /\ code_coverage = NotQueried
    /\ ParseIdle
    /\ DDLIdle
    /\ LocIdle
    /\ CmdIdle
    /\ SanIdle
    /\ ShellIdle

\* select * from code_coverage
QueryCodeCoverage ==
    /\ ~code_coverage.queried
    /\ code_coverage' = [queried |-> TRUE, rows |-> codeCoverageView(all_code, all_coverage)]
    /\ UNCHANGED <<pipeVars, parseVars, ddlVars, locVars, cmdVars, sanVars, shellVars>>

NextView == QueryCodeCoverage

SpecView == InitView /\ [][NextView]_vars

\* ------------------------------------------------------------------ the shell: Prompt

\* what rl.Readline() can deliver: a line of text (without its newline), or
\* readline.ErrInterrupt
InputLine(text) == [kind |-> "line", text |-> text]

Interrupt == [kind |-> "interrupt", text |-> <<>>]

\* the lines typed: blank ones, parts of a statement with and without
\* blanks around them, and lines with a ";" at the end, in the middle or
\* before trailing blanks
ShellLines ==
    { <<>>, <<" ">>, <<"s">>, <<" ", "s", " ">>, <<"s", ";">>, <<";">>,
      <<"s", ";", " ">>, <<";", "s">> }

ShellEvents == {InputLine(text) : text \in ShellLines} \cup {Interrupt}

\* strings.TrimSpace(line)
TrimSpace(line) ==
    LET inked == {k \in 1..Len(line) : line[k] # " "}
    IN  IF inked = {} THEN <<>>
        ELSE SubSeq(line, CHOOSE k \in inked : \A m \in inked : k <= m,
                          CHOOSE k \in inked : \A m \in inked : m <= k)

\* strings.HasSuffix(line, ";")
HasSuffixSemicolon(line) == Len(line) > 0 /\ line[Len(line)] = ";"

\* strings.Join(lines, " ")
RECURSIVE Join(_)
Join(lines) ==
    IF Len(lines) = 0 THEN <<>>
    ELSE IF Len(lines) = 1 THEN lines[1]
    ELSE lines[1] \o <<" ">> \o Join(Tail(lines))

\* the buffer left as it is
keepBuffer(buffer) == buffer

\* cmds = cmds[:0]
resetBuffer(buffer) == <<>>

InitShell ==
    /\ PipeIdle
    /\ ParseIdle
    /\ DDLIdle
    /\ LocIdle
    /\ CmdIdle
    /\ SanIdle
    /\ ViewIdle
    /\ input \in SeqsUpTo(ShellEvents, MaxInput)
    /\ pos = 1
    /\ cmds = <<>> /\ cmdsFrom = <<>>
    /\ prompt = "> "
    /\ executed = <<>>
    /\ shellRet = "running"

\* one turn of the loop on a line of text: trimmed, dropped when empty,
\* appended to the buffer, and with a ";" at its end the buffer is joined,
\* reset and handed to query.Execute, whose error is printed and changes
\* nothing
ReadLine ==
    /\ shellRet = "running"
    /\ pos <= Len(input)
    /\ input[pos].kind = "line"
    /\ LET line == TrimSpace(input[pos].text)
           buffer == Append(cmds, line)
           from == Append(cmdsFrom, pos)
       IN  IF Len(line) = 0
           THEN UNCHANGED <<cmds, cmdsFrom, prompt, executed>>
           ELSE IF ~HasSuffixSemicolon(line)
           THEN /\ cmds' = buffer
                /\ cmdsFrom' = from
                /\ prompt' = ">>> "
                /\ UNCHANGED executed
           ELSE /\ cmds' = resetBuffer(buffer)
                /\ cmdsFrom' = resetBuffer(from)
                /\ prompt' = "> "
                /\ executed' = Append(executed, [cmd |-> Join(buffer), lines |-> from])
    /\ pos' = pos + 1
    /\ UNCHANGED <<input, shellRet>>
    /\ UNCHANGED <<pipeVars, parseVars, ddlVars, locVars, cmdVars, sanVars, viewVars>>

\* readline.ErrInterrupt: with an empty buffer Prompt returns nil, otherwise
\* the buffer is dropped and the loop goes on
ReadInterrupt ==
    /\ shellRet = "running"
    /\ pos <= Len(input)
    /\ input[pos].kind = "interrupt"
    /\ IF Len(cmds) = 0
       THEN /\ shellRet' = "nil"
            /\ UNCHANGED <<cmds, cmdsFrom>>
       ELSE /\ cmds' = resetBuffer(cmds)
            /\ cmdsFrom' = resetBuffer(cmdsFrom)
            /\ UNCHANGED shellRet
    /\ pos' = pos + 1
    /\ UNCHANGED <<input, prompt, executed>>
    /\ UNCHANGED <<pipeVars, parseVars, ddlVars, locVars, cmdVars, sanVars, viewVars>>

\* the terminal has nothing more: io.EOF returns nil, any other error is
\* returned wrapped
ReadEnd ==
    /\ shellRet = "running"
    /\ pos > Len(input)
    /\ shellRet' \in {"nil", "failed to read line"}
    /\ UNCHANGED <<input, pos, cmds, cmdsFrom, prompt, executed>>
    /\ UNCHANGED <<pipeVars, parseVars, ddlVars, locVars, cmdVars, sanVars, viewVars>>

Prompt == ReadLine \/ ReadInterrupt \/ ReadEnd

NextShell == Prompt

SpecShell == InitShell /\ [][NextShell]_vars

\* ------------------------------------------------------------------ sanitizeTestName alone

\* the characters of the test names: a letter, a digit, the underscore and,
\* as go test writes them in the names of subtests, "/" and "#"
NameChars == {"A", "0", "_", "/", "#"}

InitSanitize ==
    /\ PipeIdle
    /\ ParseIdle
    /\ DDLIdle
    /\ LocIdle
    /\ CmdIdle
    /\ ViewIdle
    /\ ShellIdle
    /\ testName \in SeqsUpTo(NameChars, MaxName)
    /\ sanitized = NotSanitized

SanitizeTestName ==
    /\ ~sanitized.done
    /\ sanitized' = [done |-> TRUE, name |-> sanitizeTestName(testName)]
    /\ UNCHANGED <<testName, pipeVars, parseVars, ddlVars, locVars, cmdVars>>
    /\ UNCHANGED <<viewVars, shellVars>>

NextSanitize == SanitizeTestName

SpecSanitize == InitSanitize /\ [][NextSanitize]_vars

\* ------------------------------------------------------------------ claims: the correlator

HasRun(kind) == \E k \in 1..Len(runs) : runs[k].run = kind

Correlated(k) == runs[k].run = "none" /\ runs[k].content.state = "profile"

\* the rows the re-runs made so far account for: those of the blocks of every
\* test that ran and parsed, in event order, and none of any other test
RECURSIVE RowsOfRuns(_)
RowsOfRuns(k) ==
    IF k = 0 THEN <<>>
    ELSE RowsOfRuns(k - 1)
            \o (IF Correlated(k) THEN blockRows(runs[k].test, runs[k].content.blocks, 1)
                ELSE <<>>)

AllTestsRun ==
    /\ Len(runs) = Len(testResults)
    /\ \A k \in 1..Len(runs) : runs[k].test = testResults[k]

ExactlyOneFailedReRun ==
    /\ Cardinality({k \in 1..Len(runs) : runs[k].run = "exit"}) = 1
    /\ \A k \in 1..Len(runs) : runs[k].run # "exit" => Correlated(k)

\* C1: when exactly one of the N tests fails its isolated re-run with an exit
\* status and every other re-run and profile parse succeeds,
\* collectTestCoverageResults returns no error, has gone through all N tests,
\* and returns the rows of exactly the other N-1 tests.
C1_SkipAndContinue ==
    (corrRet.returned /\ ExactlyOneFailedReRun) =>
        /\ corrRet.err = NoErr
        /\ AllTestsRun
        /\ corrRet.rows = RowsOfRuns(Len(runs))
        /\ \A k \in 1..Len(runs) :
             runs[k].run = "exit" => RowsOfRuns(k) = RowsOfRuns(k - 1)

C1_Witness ==
    /\ corrRet.returned
    /\ ExactlyOneFailedReRun
    /\ Len(runs) >= 2
    /\ runs[1].run = "exit"
    /\ corrRet.rows # <<>>

\* C2: once collectTestCoverageResults has returned, on whatever path, no
\* per-test profile file is left on disk.
C2_NoProfileLeft == corrRet.returned => disk = {}

C2_Witness ==
    /\ corrRet.returned
    /\ \E k \in 1..Len(runs) : runs[k].wrote /\ runs[k].run = "exit"
    /\ \E k \in 1..Len(runs) : runs[k].wrote /\ runs[k].run = "none" /\ ~Correlated(k)

\* the name of the function declaration enclosing a line, "" when there is none
EnclosingFunction(line) ==
    IF \E d \in 1..Len(Decls) :
           Decls[d].kind = "func" /\ Decls[d].start <= line /\ line <= Decls[d].end
    THEN Decls[CHOOSE d \in 1..Len(Decls) :
                  Decls[d].kind = "func" /\ Decls[d].start <= line /\ line <= Decls[d].end].name
    ELSE ""

OneRowPerBlock(test, blocks) ==
    [b \in 1..Len(blocks) |->
        TestCoverageResult(test, blocks[b], EnclosingFunction(blocks[b].start_line))]

RECURSIVE RowsOfAllBlocks(_)
RowsOfAllBlocks(k) ==
    IF k = 0 THEN <<>>
    ELSE RowsOfAllBlocks(k - 1)
            \o (IF Correlated(k) THEN OneRowPerBlock(runs[k].test, runs[k].content.blocks)
                ELSE <<>>)

\* C3: for every test whose re-run and profile parse succeed the returned rows
\* hold exactly one row per block of its profile, carrying the test's name,
\* and a block inside no function declaration has its row with an empty
\* function name.
C3_OneRowPerBlock ==
    (corrRet.returned /\ corrRet.err = NoErr) =>
        corrRet.rows = RowsOfAllBlocks(Len(runs))

\* C4: a re-run that cannot be launched is the last re-run, makes
\* collectTestCoverageResults return an error and no rows, and the error
\* reaches the caller of PopulateTables: no test_coverage row is inserted and
\* no later pass runs.
C4_LaunchFailureAborts ==
    /\ \A k \in 1..Len(runs) : runs[k].run = "launch" => k = Len(runs)
    /\ HasRun("launch") =>
         /\ pc \in {"corr_ran", "corr_returned", "aborted"}
         /\ corrRet.returned => (corrRet.err # NoErr /\ corrRet.rows = <<>>)
         /\ pc = "aborted" =>
              /\ Len(err) > Len(corrRet.err)
              /\ SubSeq(err, Len(err) - Len(corrRet.err) + 1, Len(err)) = corrRet.err
              /\ test_coverage = <<>>
              /\ all_code = <<>>

C4_Witness ==
    /\ pc = "aborted"
    /\ Len(testResults) = 2
    /\ Len(runs) = 1
    /\ runs[1].run = "launch"

\* C5: a test whose profile cannot be parsed after a successful re-run is
\* skipped: it adds no rows, the other tests are gone through in event order
\* and collectTestCoverageResults returns no error.
C5_ParseFailureSkips ==
    (/\ corrRet.returned
     /\ ~HasRun("launch")
     /\ \E k \in 1..Len(runs) : runs[k].run = "none" /\ ~Correlated(k)) =>
        /\ corrRet.err = NoErr
        /\ AllTestsRun
        /\ corrRet.rows = RowsOfRuns(Len(runs))

C5_Witness ==
    /\ corrRet.returned
    /\ Len(runs) = 2
    /\ runs[1].run = "none" /\ runs[1].content.state = "garbled"
    /\ Correlated(2)
    /\ corrRet.rows # <<>>

IsReRunnable(e) == e.kind = "rec" /\ e.test # <<>> /\ e.action \in {"pass", "fail"}

FromReRunnableEvent(name) ==
    \E j \in 1..Len(harness.out) : IsReRunnable(harness.out[j]) /\ harness.out[j].test = name

\* C6: a re-run is issued only for an event of the stream with a non-empty
\* test name and action pass or fail, and every row of the correlator and of
\* test_coverage carries the name of such an event; a skip event triggers no
\* re-run and yields no row.
C6_SkipNeverReRun ==
    /\ \A k \in 1..Len(runs) :
         /\ IsReRunnable(runs[k].test)
         /\ \E j \in 1..Len(harness.out) : harness.out[j] = runs[k].test
    /\ \A k \in 1..Len(results) : FromReRunnableEvent(results[k].test_name)
    /\ \A k \in 1..Len(test_coverage) : FromReRunnableEvent(test_coverage[k].test_name)

C6_Witness ==
    /\ pc = "done"
    /\ harness.out = Lines(<<EvSkip, EvPass>>)
    /\ Len(runs) = 1
    /\ test_coverage # <<>>

\* ------------------------------------------------------------------ claims: the schema script

\* a statement of the script fails: it is malformed, or it creates an object
\* that an earlier statement of the script created
StmtFails(k) ==
    \/ ddl[k].kind = "malformed"
    \/ /\ ddl[k].kind = "create"
       /\ \E j \in 1..(k - 1) : ddl[j].kind = "create" /\ ddl[j].obj = ddl[k].obj

ScriptObjects == {ddl[k].obj : k \in {j \in 1..Len(ddl) : ddl[j].kind = "create"}}

\* C7: CreateTablesFromDDL is all-or-nothing: when a statement of the script
\* fails, at whatever position, an error is returned and no object of the
\* script exists afterwards; when it returns no error every object of the
\* script exists; and it returns an error only if the transaction could not
\* be begun or committed or a statement failed.
C7_SchemaAtomic ==
    ddlPc = "returned" =>
        /\ (\E k \in 1..Len(ddl) : StmtFails(k)) => ddlErr # NoErr
        /\ ddlErr # NoErr => schema = {}
        /\ ddlErr = NoErr => schema = ScriptObjects
        /\ (ddlErr # NoErr /\ Head(ddlErr) = "failed to execute statement")
              => \E k \in 1..Len(ddl) : StmtFails(k)

C7_Witness ==
    /\ ddlPc = "returned"
    /\ ddl = <<CreateStmt("all_tests"), CreateStmt("b"), MalformedStmt>>
    /\ ddlErr # NoErr
    /\ schema = {}

\* ------------------------------------------------------------------ claims: the event collector

Decodable == \A j \in 1..Len(harness.out) : harness.out[j].kind # "bad"

BuildFailures ==
    {j \in 1..Len(harness.out) :
        /\ harness.out[j].kind = "rec"
        /\ harness.out[j].action = "fail"
        /\ harness.out[j].fb # ""}

\* C8: when the decoded stream holds a fail event with a non-empty
\* build-failure marker, collectTestResults returns no events and an error
\* that names the package of such an event, and PopulateTables stops with
\* that error: no row is in any table and no re-run was issued.
C8_BuildFailureAborts ==
    (/\ pc # "tests"
     /\ harness.runErr # "launch"
     /\ Decodable
     /\ BuildFailures # {}) =>
        /\ collected.events = <<>>
        /\ Len(collected.err) = 2
        /\ collected.err[1] = "build failed for package"
        /\ \E j \in BuildFailures : harness.out[j].fb = collected.err[2]
        /\ pc = "aborted"
        /\ err = <<"failed to populate test results", "failed to collect test results">>
                    \o collected.err
        /\ all_tests = <<>> /\ all_coverage = <<>> /\ test_coverage = <<>> /\ all_code = <<>>
        /\ runs = <<>>

C8_Witness ==
    /\ pc = "aborted"
    /\ harness.out = Lines(<<EvPass, EvBuildFail>>)
    /\ harness.runErr = "exit"

\* the events of the output that are test results, in order
TestResultsOf(output) ==
    SelectSeq(output, LAMBDA t : t.kind = "rec" /\ t.test # <<>>
                                   /\ t.action \in {"pass", "fail"})

\* C9: an exit status of the harness is no error of collectTestResults: what
\* it returns is what it returns for the same output and exit status zero,
\* and for an output of well-formed records without a build failure that is
\* the pass and fail events of the output and no error; the run of the
\* harness is reported as failed only when the harness could not be run.
C9_ExitStatusIsNoError ==
    pc # "tests" =>
        /\ harness.runErr = "exit" =>
             /\ collected = collectTestResults("none", harness.out)
             /\ (Decodable /\ BuildFailures = {}) =>
                  /\ collected.err = NoErr
                  /\ collected.events = TestResultsOf(harness.out)
        /\ (collected.err # NoErr /\ Head(collected.err) = "failed to run go test")
              <=> harness.runErr = "launch"

C9_Witness ==
    /\ pc = "coverage"
    /\ harness.runErr = "exit"
    /\ harness.out = Lines(<<EvPass, EvFail>>)
    /\ collected.events = <<EvPass, EvFail>>
    /\ all_tests = <<EvPass, EvFail>>

HasMalformed(output) == \E j \in 1..Len(output) : output[j].kind = "bad"

\* C10: parseTestOutput returns a decode error and no events when a record of
\* the output is malformed, whatever precedes it, and an empty list and no
\* error for the empty output.
C10_MalformedOrEmpty ==
    parsed.by # "none" =>
        /\ ~parsed.panic
        /\ HasMalformed(raw) => (parsed.err # NoErr /\ parsed.events = <<>>)
        /\ raw = <<>> => (parsed.err = NoErr /\ parsed.events = <<>>)

\* ------------------------------------------------------------------ claims: the function locator

\* the top-level function and method declarations of the located file
FuncDeclsOfLoc ==
    {d \in 1..Len(DeclsOf(loc.file)) : DeclsOf(loc.file)[d].kind = "func"}

InLines(line, lo, hi) == lo <= line /\ line <= hi

\* the line is inside no function declaration of the located file
OutsideEveryFunction ==
    \A d \in FuncDeclsOfLoc :
        ~InLines(loc.line, DeclsOf(loc.file)[d].start, DeclsOf(loc.file)[d].end)

\* C11: for a line of a parsed file that no function declaration contains,
\* getFunctionName returns the empty name and no error; it returns an error
\* only for a file that cannot be parsed.
C11_NotFoundIsNotAnError ==
    located.by # "none" =>
        /\ (loc.file \in ParsedFiles /\ OutsideEveryFunction) =>
              (located.name = "" /\ located.err = NoErr)
        /\ located.err # NoErr => loc.file \notin ParsedFiles

\* C12: for a line inside the inclusive line range of a top-level function or
\* method declaration getFunctionName returns the name of that declaration,
\* first and last line included; a line inside a function literal, however
\* deeply nested, gets the name of the top-level declaration around it, and
\* no name is ever returned that is not the name of a top-level function.
C12_TopLevelEnclosingFunction ==
    (located.by # "none" /\ loc.file \in ParsedFiles) =>
        LET decls == DeclsOf(loc.file)
        IN  /\ \A d \in FuncDeclsOfLoc :
                 /\ InLines(loc.line, decls[d].start, decls[d].end) =>
                      (located.name = decls[d].name /\ located.err = NoErr)
                 /\ \A lit \in decls[d].lits :
                      InLines(loc.line, lit[1], lit[2]) => located.name = decls[d].name
            /\ located.name \in {decls[d].name : d \in FuncDeclsOfLoc} \cup {""}

C12_Witness ==
    /\ located.by = "ast_utils"
    /\ loc = [file |-> "nested.go", line |-> 4]
    /\ located.name = "Outer"

\* ------------------------------------------------------------------ claims: the two coverage paths

\* what the aggregate path does with one block: a row, or the end of the pass
AggregateOutcome(block) ==
    LET got == coverageRows(<<block>>, 1, <<>>)
    IN  IF got.err # NoErr THEN [does |-> "abort", function_name |-> ""]
        ELSE [does |-> "row", function_name |-> got.rows[1].function_name]

\* what the per-test path does with one block: a row, or nothing
PerTestOutcome(test, block) ==
    LET rows == blockRows(test, <<block>>, 1)
    IN  IF rows = <<>> THEN [does |-> "continue", function_name |-> ""]
        ELSE [does |-> "row", function_name |-> rows[1].function_name]

\* C13: every block the per-test path has gone through is treated by it as
\* the aggregate path treats a block of the same file and start line: both
\* emit its row with the same function name, or both fail; never does one
\* end the pipeline where the other goes on.
C13_SamePolicyOnBothPaths ==
    \A k \in 1..Len(runs) :
        (Correlated(k) /\ k < i) =>
            \A b \in 1..Len(runs[k].content.blocks) :
                PerTestOutcome(runs[k].test, runs[k].content.blocks[b])
                    = AggregateOutcome(runs[k].content.blocks[b])

\* ------------------------------------------------------------------ claims: PopulateTables

\* the passes in the order tests, aggregate coverage, per-test coverage,
\* source lines: a table is empty until its pass is reached
PassOrder ==
    /\ pc = "tests" => all_tests = <<>>
    /\ pc \in {"tests", "coverage"} => all_coverage = <<>>
    /\ pc \in {"tests", "coverage", "corr_loop", "corr_ran", "corr_returned"} =>
          test_coverage = <<>>
    /\ pc # "done" /\ pc # "aborted" => all_code = <<>>
    /\ all_coverage # <<>> => (collected.err = NoErr /\ all_tests = collected.events)
    /\ pc = "done" => err = NoErr

\* a pass that fails ends PopulateTables with its error
FailureEndsPopulateTables ==
    /\ err # NoErr <=> pc = "aborted"
    /\ pc = "aborted" => ~ENABLED Next

\* a table is written by its own pass only, and only by appending
PassWritesOwnTable ==
    /\ all_tests' # all_tests => pc = "tests"
    /\ all_coverage' # all_coverage => pc = "coverage"
    /\ test_coverage' # test_coverage => pc = "corr_returned"
    /\ all_code' # all_code => pc = "code"
    /\ \A t \in 1..4 :
         LET old == <<all_tests, all_coverage, test_coverage, all_code>>[t]
             new == <<all_tests', all_coverage', test_coverage', all_code'>>[t]
         IN  Len(new) >= Len(old) /\ SubSeq(new, 1, Len(old)) = old

\* C14: PopulateTables runs the passes in the order tests, aggregate
\* coverage, per-test coverage, source lines; a pass that fails leaves the
\* rows of the passes before it as they were, no later pass is run, and the
\* error is what PopulateTables returns.
C14_PassOrderAndFrame ==
    /\ [](PassOrder /\ FailureEndsPopulateTables)
    /\ [][PassWritesOwnTable]_vars

C14_Witness ==
    /\ pc = "aborted"
    /\ Head(err) = "failed to populate test coverage results"
    /\ all_tests # <<>>
    /\ all_coverage # <<>>
    /\ all_code = <<>>

\* the pass PopulateTables is in
PassAt(at) ==
    CASE at = "tests" -> 1
      [] at = "coverage" -> 2
      [] at = "corr_returned" -> 3
      [] at = "code" -> 4
      [] OTHER -> 0

\* C15: the error of a failing pass is wrapped in a message that is the
\* message of that pass and of no other pass, and the error of the pass is
\* still there under the wrap.
C15_WrapIdentifiesPass ==
    [][(err = NoErr /\ err' # NoErr) =>
          /\ PassAt(pc) # 0
          /\ Head(err') = wrapOfPass(PassAt(pc))
          /\ \A other \in 1..4 : other # PassAt(pc) => Head(err') # wrapOfPass(other)
          /\ Len(err') >= 2]_vars

\* the insert of a row failed in the pass that fills the table
InsertFailed(message) == pc = "aborted" /\ Len(err) >= 2 /\ err[2] = message

\* C16: a pass whose insert of a row fails partway leaves none of the rows it
\* inserted before the failure in its table.
C16_PassIsOneTransaction ==
    /\ InsertFailed("failed to insert test results") => all_tests = <<>>
    /\ InsertFailed("failed to insert coverage results") => all_coverage = <<>>
    /\ InsertFailed("failed to insert test coverage results") => test_coverage = <<>>
    /\ InsertFailed("failed to insert code lines") => all_code = <<>>

\* ------------------------------------------------------------------ claims: the commands

CollectionSteps == {"remove", "list", "create", "harness", "insert"}

\* C17: runQuery and runShell without --force on a database file that is
\* there list no package, run no harness, create no schema and insert no row:
\* the query or the shell starts on the file as it was.
C17_ExistingDatabaseUsedAsIs ==
    (/\ last.cmd \in {"query", "shell"}
     /\ ~last.force
     /\ last.before.file = "present") =>
        /\ last.did = {last.cmd}
        /\ last.did \cap CollectionSteps = {}
        /\ db = last.before

C17_Witness ==
    /\ last.cmd = "shell"
    /\ ~last.force
    /\ last.before.file = "present"
    /\ last.before.tabs[1] # {}
    /\ last.before.tabs[4] = {}
    /\ "shell" \in last.did

\* C18: whatever commands were run, the tables hold the rows of one
\* collection run at most, and after runQuery or runShell with --force has
\* succeeded on a database file that was there every table holds the rows of
\* the collection that command ran and no others.
C18_RebuiltFromScratch ==
    /\ Cardinality(UNION {db.tabs[t] : t \in 1..4}) <= 1
    /\ (/\ last.cmd \in {"query", "shell"}
        /\ last.force
        /\ last.before.file = "present"
        /\ last.err = NoErr) =>
          /\ "harness" \in last.did
          /\ \A t \in 1..4 : db.tabs[t] = {collections}

C18_Witness ==
    /\ last.cmd = "query"
    /\ last.force
    /\ last.err = NoErr
    /\ last.before.tabs[1] = {1}
    /\ db.tabs[1] = {2}

\* ------------------------------------------------------------------ claims: skip events and profile files

\* the first pass is over and has inserted every row it was given
TestsPassDone == pc # "tests" /\ pc # "aborted"

\* C19: once the test results are stored, every skip event of the harness
\* stream that names a test is a row of all_tests, with action skip.
C19_SkipRetainedInAllTests ==
    TestsPassDone =>
        \A j \in 1..Len(harness.out) :
            (/\ harness.out[j].kind = "rec"
             /\ harness.out[j].action = "skip"
             /\ harness.out[j].test # <<>>) =>
                \E k \in 1..Len(all_tests) :
                    /\ all_tests[k].action = "skip"
                    /\ all_tests[k].test = harness.out[j].test

\* C20: two re-runs of one correlation run for tests of different names are
\* never given the same profile file.
C20_ProfilePathUniquePerTest ==
    \A j \in 1..Len(runs), k \in 1..Len(runs) :
        runs[j].test.test # runs[k].test.test =>
            sanitizeTestName(runs[j].test.test) # sanitizeTestName(runs[k].test.test)

\* ------------------------------------------------------------------ claims: the sanitizer

\* the positions of a name that start a maximal run of characters outside
\* [A-Za-z0-9_]
RunStarts(name) ==
    {k \in 1..Len(name) :
        ~IsWordChar(name[k]) /\ (k = 1 \/ IsWordChar(name[k - 1]))}

\* the positions that leave a character in the result
KeptPositions(name) ==
    {k \in 1..Len(name) : IsWordChar(name[k])} \cup RunStarts(name)

\* the j-th kept position, in order
KeptAt(name, j) ==
    CHOOSE k \in KeptPositions(name) :
        Cardinality({m \in KeptPositions(name) : m <= k}) = j

OnlyWordChars(name) == \A k \in 1..Len(name) : IsWordChar(name[k])

\* C21 as stated: sanitizeTestName replaces every character outside
\* [A-Za-z0-9_] with one underscore and leaves every other character in
\* place, so the result is as long as the input and holds only characters
\* of [A-Za-z0-9_]
C21_LengthPreserved ==
    sanitized.done =>
        /\ Len(sanitized.name) = Len(testName)
        /\ OnlyWordChars(sanitized.name)
        /\ \A k \in 1..Len(testName) :
              IsWordChar(testName[k]) => sanitized.name[k] = testName[k]

\* C21 amended: sanitizeTestName replaces every maximal run of characters
\* outside [A-Za-z0-9_] with one underscore and keeps every other character,
\* in order; the result holds only characters of [A-Za-z0-9_], is never
\* longer than the input, and is as long as the input exactly when no two
\* characters outside the class are adjacent
C21_RunsCollapse ==
    sanitized.done =>
        /\ OnlyWordChars(sanitized.name)
        /\ Len(sanitized.name) = Cardinality(KeptPositions(testName))
        /\ \A j \in 1..Len(sanitized.name) :
              LET k == KeptAt(testName, j)
              IN  sanitized.name[j] =
                      IF IsWordChar(testName[k]) THEN testName[k] ELSE "_"
        /\ Len(sanitized.name) <= Len(testName)
        /\ (Len(sanitized.name) = Len(testName)) <=>
              (\A k \in 2..Len(testName) :
                  IsWordChar(testName[k]) \/ IsWordChar(testName[k - 1]))

\* a subtest name with two adjacent characters outside the class
C21_Witness ==
    /\ sanitized.done
    /\ testName = <<"A", "/", "#">>
    /\ sanitized.name = <<"A", "_">>

\* ------------------------------------------------------------------ claims: the aggregate profile

Unreadable(content) == content.state \in {"absent", "garbled"}

\* C23: when coverage.out cannot be opened or parsed, collectCoverageResults
\* returns an error and no block list, populateCoverageResults inserts no
\* all_coverage row, and the error propagates: PopulateTables returns it and
\* runs no later pass
C23_UnreadableProfileAborts ==
    Unreadable(coverageOut) =>
        /\ collectCoverageResults(coverageOut).err # NoErr
        /\ collectCoverageResults(coverageOut).rows = <<>>
        /\ all_coverage = <<>>
        /\ pc = "aborted"
        /\ err = Wrap(wrapOfPass(2),
                      Wrap("failed to collect coverage results",
                           collectCoverageResults(coverageOut).err))
        /\ runs = <<>> /\ test_coverage = <<>> /\ all_code = <<>>

\* the first pass stored its rows, then coverage.out did not parse
C23_Witness ==
    /\ coverageOut.state = "garbled"
    /\ all_tests # <<>>
    /\ pc = "aborted"

\* ------------------------------------------------------------------ claims: cancellation

\* C22: once the context of the population phase is canceled the correlator
\* starts no further re-run: no step taken under a canceled context adds a
\* re-run
C22_NoReRunAfterCancel == [][canceled => runs' = runs]_vars

\* ------------------------------------------------------------------ claims: the view code_coverage

\* strings.HasSuffix(name, "_test.go"): what the go tool takes for a test file
IsTestFile(name) ==
    /\ Len(name) >= 8
    /\ SubSeq(name, Len(name) - 7, Len(name)) =
           <<"_", "t", "e", "s", "t", ".", "g", "o">>

\* the counts of the all_coverage blocks of the file of a line that contain it
CountsAt(ac) ==
    {all_coverage[c].count : c \in {c \in 1..Len(all_coverage) :
        /\ all_coverage[c].file = ac.file
        /\ all_coverage[c].start_line <= ac.line_number
        /\ ac.line_number <= all_coverage[c].end_line}}

RowsAt(ac) ==
    {r \in code_coverage.rows : r.file = ac.file /\ r.line_number = ac.line_number}

\* C24: code_coverage has a row for every all_code line whose file is not a
\* test file; its covered value is the count of a block of that file that
\* contains the line, and 0 when there is none; a line inside an executed
\* block is reported with covered > 0, and no line of a test file appears
C24_RowForEveryNonTestLine ==
    code_coverage.queried =>
        /\ \A k \in 1..Len(all_code) :
              ~IsTestFile(Spelling(all_code[k].file)) =>
                  /\ RowsAt(all_code[k]) # {}
                  /\ \A r \in RowsAt(all_code[k]) :
                        IF CountsAt(all_code[k]) = {} THEN r.covered = 0
                        ELSE r.covered \in CountsAt(all_code[k])
                  /\ (\E n \in CountsAt(all_code[k]) : n > 0) =>
                        \E r \in RowsAt(all_code[k]) : r.covered > 0
        /\ \A r \in code_coverage.rows : ~IsTestFile(Spelling(r.file))

\* C30: code_coverage has at most one row per (file, line_number)
C30_OneRowPerLine ==
    code_coverage.queried =>
        \A r1, r2 \in code_coverage.rows :
            (r1.file = r2.file /\ r1.line_number = r2.line_number) => r1 = r2

\* ------------------------------------------------------------------ claims: the shell

\* the input positions read so far that hold a line with text
TextLines == {p \in 1..(pos - 1) : input[p].kind = "line" /\ TrimSpace(input[p].text) # <<>>}

\* the lines read so far that end a statement
Terminating == {p \in TextLines : HasSuffixSemicolon(TrimSpace(input[p].text))}

Interrupts == {p \in 1..(pos - 1) : input[p].kind = "interrupt"}

FirstOf(e) == executed[e].lines[1]

LastOf(e) == executed[e].lines[Len(executed[e].lines)]

\* what entry e of executed must be: the lines with text from its first to
\* its last line, in order, joined by single spaces; only the last of them
\* ends in ";", and no interrupt came between them
IsStatement(e) ==
    LET ls == executed[e].lines
    IN  /\ Len(ls) > 0
        /\ \A j \in 1..(Len(ls) - 1) : ls[j] < ls[j + 1]
        /\ {ls[j] : j \in 1..Len(ls)} = {p \in TextLines : FirstOf(e) <= p /\ p <= LastOf(e)}
        /\ {ls[j] : j \in 1..Len(ls)} \cap Terminating = {LastOf(e)}
        /\ \A p \in Interrupts : p < FirstOf(e) \/ p > LastOf(e)
        /\ executed[e].cmd = Join([j \in 1..Len(ls) |-> TrimSpace(input[ls[j]].text)])

\* C25: Prompt buffers the trimmed, non-empty lines until one ends with ";",
\* then executes once the buffered lines joined by single spaces and clears
\* the buffer: a statement is executed only when its terminating line has
\* been read, every terminating line read ends exactly one executed
\* statement, no line is in two statements, and the statements are executed
\* in input order
C25_BufferUntilSemicolon ==
    /\ \A e \in 1..Len(executed) : IsStatement(e)
    /\ \A e \in 1..(Len(executed) - 1) : LastOf(e) < FirstOf(e + 1)
    /\ \A p \in Terminating : Cardinality({e \in 1..Len(executed) : LastOf(e) = p}) = 1
    /\ \A k \in 1..Len(cmdsFrom) :
          /\ cmdsFrom[k] \in TextLines \ Terminating
          /\ cmds[k] = TrimSpace(input[cmdsFrom[k]].text)
          /\ \A e \in 1..Len(executed) : LastOf(e) < cmdsFrom[k]
    /\ Len(cmds) = Len(cmdsFrom)
    /\ (pos - 1) \in Terminating => cmds = <<>>

\* a statement typed on two lines, then a statement on one line
C25_Witness ==
    /\ Len(executed) = 2
    /\ executed[1].cmd = <<"s", " ", "s", ";">>
    /\ executed[1].lines = <<1, 2>>
    /\ executed[2].lines = <<3>>

\* C29: whenever a line is about to be read the prompt is ">>> " exactly when
\* the buffer holds something and "> " exactly when it is empty
C29_PromptTellsBuffer ==
    shellRet = "running" =>
        /\ (prompt = ">>> ") <=> (cmds # <<>>)
        /\ (prompt = "> ") <=> (cmds = <<>>)

\* ------------------------------------------------------------------ claims: a failed collection

\* C26: when runCollect fails under runQuery or runShell, no file is left at
\* the database path, so that a later run without --force collects again
\* instead of opening what the failed run left
C26_NoFileAfterFailedCollect ==
    (/\ last.cmd \in {"query", "shell"}
     /\ "list" \in last.did
     /\ last.err # NoErr) =>
        db.file = "absent"

\* ------------------------------------------------------------------ claims: whose profile, whose rows

\* the re-run of the iteration the correlator is in
ThisRun == runs[Len(runs)]

\* C27: the profile an iteration parses is the one its own re-run wrote: the
\* file it reads holds what that re-run wrote (nothing when it wrote
\* nothing), no profile file is there when the next re-run starts, and the
\* rows of a test are those of the blocks its own re-run wrote, also when
\* two test names give the same file name
C27_OwnProfileParsed ==
    /\ pc = "corr_ran" =>
          /\ ThisRun.test = testResults[i]
          /\ cmdErr = "none" =>
                readFile(disk, sanitizeTestName(testResults[i].test)) = ThisRun.content
    /\ pc = "corr_loop" => disk = {}
    /\ pc \in {"corr_loop", "corr_ran"} => results = RowsOfRuns(i - 1)

\* A/b and A_b share the file name A_b; both were re-run, the first wrote a
\* profile with blocks and the second another one, and each has its rows
C27_Witness ==
    /\ pc = "corr_loop"
    /\ Len(runs) = 2
    /\ runs[1].test.test # runs[2].test.test
    /\ sanitizeTestName(runs[1].test.test) = sanitizeTestName(runs[2].test.test)
    /\ Correlated(1) /\ Correlated(2)
    /\ runs[1].content # runs[2].content
    /\ \E k \in 1..Len(results) : results[k].test_name = runs[1].test.test
    /\ \E k \in 1..Len(results) : results[k].test_name = runs[2].test.test

\* C28: whether PopulateTables succeeds or aborts, every test_name of
\* test_coverage is the test of a row of all_tests whose action is pass or
\* fail
C28_CoverageNamesAreStoredTests ==
    \A k \in 1..Len(test_coverage) :
        \E j \in 1..Len(all_tests) :
            /\ all_tests[j].test = test_coverage[k].test_name
            /\ all_tests[j].action \in {"pass", "fail"}

\* the third pass stored a row of A/b and then failed
C28_Witness ==
    /\ pc = "aborted"
    /\ test_coverage # <<>>
    /\ test_coverage[1].test_name = <<"A", "/", "b">>
    /\ Len(test_coverage) < Len(corrRet.rows)

====
